---- MODULE Spec2Model ----
(***************************************************************************)
(* kube-resource-extra: typed Istio resources (DestinationRule, Gateway,   *)
(* VirtualService) whose only behaviour is the serde-derived conversion    *)
(* to and from the JSON wire form.                                         *)
(*                                                                         *)
(* The schema (one definition per Rust type, same names) is data; the      *)
(* derive expansion of Serialize / Deserialize is the pair of recursive    *)
(* operators ToJson / FromJson that interpret it.                          *)
(***************************************************************************)
EXTENDS Integers, Sequences, FiniteSets, TLC

(***************************************************************************)
(* Bounds of the model.                                                    *)
(***************************************************************************)
MaxVecLen == 1      \* longest Vec in a constructed value
MaxMapKeys == 1     \* most keys in a constructed HashMap
MaxInt == 1         \* integers in constructed values are 0..MaxInt
NumThreads == 2     \* concurrent callers

(***************************************************************************)
(* JSON wire values.  An object is the sequence of its members in document *)
(* order, so key order and repeated keys are representable.                *)
(***************************************************************************)
JNull == [j |-> "null"]
JBool(b) == [j |-> "bool", vb |-> b]
JNum(n) == [j |-> "num", vn |-> n]
JStr(s) == [j |-> "str", vs |-> s]
JArr(a) == [j |-> "arr", va |-> a]
JObj(o) == [j |-> "obj", vo |-> o]
Member(k, v) == [k |-> k, v |-> v]

Keys(w) == IF w.j = "obj" THEN {w.vo[i].k : i \in 1..Len(w.vo)} ELSE {}
HasKey(w, k) == k \in Keys(w)
Get(w, k) == w.vo[CHOOSE i \in 1..Len(w.vo) : w.vo[i].k = k].v

(***************************************************************************)
(* Typed values.                                                           *)
(***************************************************************************)
None == [some |-> FALSE]
Some(x) == [some |-> TRUE, val |-> x]
Unit == [unit |-> TRUE]
UnitVariant(name) == [variant |-> name]
NewtypeVariant(name, x) == [variant |-> name, vval |-> x]
StructVariant(name, fs) == [variant |-> name, vfields |-> fs]
Float(n) == [f |-> "num", fn |-> n]
NaN == [f |-> "nan"]
Duration(secs, nanos) == [secs |-> secs, nanos |-> nanos]

(***************************************************************************)
(* Results of a decode.                                                    *)
(***************************************************************************)
Ok(v) == [ok |-> TRUE, val |-> v]
Err(kind, what) == [ok |-> FALSE, err |-> [kind |-> kind, what |-> what]]

(***************************************************************************)
(* Type descriptors: what a derive sees of a Rust type.                    *)
(***************************************************************************)
String == [t |-> "string"]
Bool == [t |-> "bool"]
I32 == [t |-> "int", signed |-> TRUE]
U32 == [t |-> "int", signed |-> FALSE]
U64 == [t |-> "int", signed |-> FALSE]
F32 == [t |-> "float"]
UnitTy_Open == [t |-> "string"]

UnitTy == [t |-> "unit"]
StdDuration == [t |-> "duration"]
Option(ty) == [t |-> "option", of |-> ty]
Vec(ty) == [t |-> "vec", of |-> ty]
HashMap(ty) == [t |-> "map", of |-> ty]
Newtype(name, ty) == [t |-> "newtype", name |-> name, of |-> ty]
Field(name, wire, ty) == [name |-> name, wire |-> wire, ty |-> ty]
Plain(name, ty) == Field(name, name, ty)
Struct(name, skip, fields) ==
    [t |-> "struct", name |-> name, skip_none |-> skip, fields |-> fields]
VUnit(name, wire) == [name |-> name, wire |-> wire, shape |-> "unit"]
VNewtype(name, wire, ty) == [name |-> name, wire |-> wire, shape |-> "newtype", of |-> ty]
VStruct(name, wire, fields) ==
    [name |-> name, wire |-> wire, shape |-> "struct", fields |-> fields]
Enum(name, skip, variants) ==
    [t |-> "enum", name |-> name, skip_none |-> skip, variants |-> variants]

SkipSerializingNone == TRUE
NoAttribute == FALSE

(***************************************************************************)
(* HashMap iterates in an unspecified order: a serialization draws the     *)
(* order of a map's members, ascending or descending in MapKeyNames.       *)
(***************************************************************************)
MapKeyNames == <<"k1", "k2", "k3">>
MapOrders == {"asc", "desc"}

RECURSIVE MapMembersFrom(_, _, _)
MapMembersFrom(m, i, ord) ==
    \* the keys of m from position i of the iteration order on
    IF i > Len(MapKeyNames) THEN <<>>
    ELSE LET k == IF ord = "asc" THEN MapKeyNames[i]
                  ELSE MapKeyNames[Len(MapKeyNames) + 1 - i]
         IN  (IF k \in DOMAIN m THEN <<k>> ELSE <<>>) \o MapMembersFrom(m, i + 1, ord)

VariantNamed(variants, name) ==
    variants[CHOOSE i \in 1..Len(variants) : variants[i].name = name]

(***************************************************************************)
(* Serialize, as derived: serde_json::to_string(&v).                       *)
(***************************************************************************)
RECURSIVE ToJson(_, _, _)
RECURSIVE SerializeFields(_, _, _, _, _)

SerializeOption(ty, v, ord) ==
    \* Option<T>: None is serialize_none (JSON null), Some(x) is x
    IF v.some THEN ToJson(ty.of, v.val, ord) ELSE JNull

SerializeFields(fields, skip, v, i, ord) ==
    \* serialize_struct: one member per field, in declaration order, under the
    \* field's serde name; skip_serializing_none drops a None of an Option field
    IF i > Len(fields) THEN <<>>
    ELSE LET f == fields[i]
             rest == SerializeFields(fields, skip, v, i + 1, ord)
         IN  IF skip /\ f.ty.t = "option" /\ ~v[f.name].some
             THEN rest
             ELSE <<Member(f.wire, ToJson(f.ty, v[f.name], ord))>> \o rest

SerializeUnitVariant_RustName(var) ==
    \* a serializer that ignores #[serde(rename)] on a variant
    JStr(var.name)

SerializeUnitVariant(var) ==
    \* serialize_unit_variant: the variant's serde name as a string
    JStr(var.wire)

SerializeVariant_Untagged(ty, v, ord) ==
    \* a serializer that writes the content of the variant without its tag
    LET var == VariantNamed(ty.variants, v.variant)
    IN  CASE var.shape = "unit" -> JNull
          [] var.shape = "newtype" -> ToJson(var.of, v.vval, ord)
          [] var.shape = "struct" ->
                JObj(SerializeFields(var.fields, ty.skip_none, v.vfields, 1, ord))

SerializeVariant(ty, v, ord) ==
    \* an enum without a representation attribute is externally tagged:
    \* {"<variant>": <content>}
    LET var == VariantNamed(ty.variants, v.variant)
    IN  CASE var.shape = "unit" -> SerializeUnitVariant(var)
          [] var.shape = "newtype" ->
                JObj(<<Member(var.wire, ToJson(var.of, v.vval, ord))>>)
          [] var.shape = "struct" ->
                JObj(<<Member(var.wire,
                     JObj(SerializeFields(var.fields, ty.skip_none, v.vfields, 1, ord)))>>)

SerializeDuration(v) ==
    \* serde's impl for std::time::Duration: struct Duration { secs, nanos }
    JObj(<<Member("secs", JNum(v.secs)), Member("nanos", JNum(v.nanos))>>)

SerializeFloat_Failing(v) ==
    IF v.f = "nan" THEN [j |-> "error"] ELSE JNum(v.fn)

SerializeFloat(v) ==
    \* serde_json writes a non-finite float as null
    IF v.f = "nan" THEN JNull ELSE JNum(v.fn)

ToJson(ty, v, ord) ==
    CASE ty.t = "string" -> JStr(v)
      [] ty.t = "bool" -> JBool(v)
      [] ty.t = "int" -> JNum(v)
      [] ty.t = "float" -> SerializeFloat(v)
      [] ty.t = "unit" -> JNull
      [] ty.t = "duration" -> SerializeDuration(v)
      [] ty.t = "option" -> SerializeOption(ty, v, ord)
      [] ty.t = "newtype" -> ToJson(ty.of, v, ord)
      [] ty.t = "vec" -> JArr([i \in 1..Len(v) |-> ToJson(ty.of, v[i], ord)])
      [] ty.t = "map" ->
            LET ks == MapMembersFrom(v, 1, ord)
            IN  JObj([i \in 1..Len(ks) |-> Member(ks[i], ToJson(ty.of, v[ks[i]], ord))])
      [] ty.t = "struct" -> JObj(SerializeFields(ty.fields, ty.skip_none, v, 1, ord))
      [] ty.t = "enum" -> SerializeVariant(ty, v, ord)

(***************************************************************************)
(* Deserialize, as derived: serde_json::from_str::<T>(doc).                *)
(***************************************************************************)
InvalidType(w) == Err("invalid_type", w.j)

FieldChain(e) ==
    \* the field names a serde_json::Error carries: the one name in the
    \* message of a missing, duplicate or unknown field, none in any other
    IF e.kind \in {"missing_field", "duplicate_field", "unknown_field"}
    THEN <<e.what>>
    ELSE <<>>

FieldIndex_ByEitherName(fields, key) ==
    IF \E i \in 1..Len(fields) : key \in {fields[i].wire, fields[i].name}
    THEN CHOOSE i \in 1..Len(fields) : key \in {fields[i].wire, fields[i].name}
    ELSE 0

FieldIndex(fields, key) ==
    \* the generated field identifier: the position of the field whose serde
    \* name is key, 0 for any other key (ignored)
    IF \E i \in 1..Len(fields) : fields[i].wire = key
    THEN CHOOSE i \in 1..Len(fields) : fields[i].wire = key
    ELSE 0

VariantIndex(variants, tag) ==
    IF \E i \in 1..Len(variants) : variants[i].wire = tag
    THEN CHOOSE i \in 1..Len(variants) : variants[i].wire = tag
    ELSE 0

RECURSIVE FromJson(_, _)
RECURSIVE VisitMap(_, _, _, _, _)
RECURSIVE VisitSeq(_, _, _, _)
RECURSIVE MissingFields(_, _, _)
RECURSIVE DeserializeSeq(_, _, _, _)
RECURSIVE DeserializeMap(_, _, _, _)

DeserializeOption_NullIsValue(ty, w) ==
    \* a decoder that hands null to the inner type instead of taking it as None
    LET r == FromJson(ty.of, w)
    IN  IF r.ok THEN Ok(Some(r.val)) ELSE r

DeserializeOption(ty, w) ==
    \* Option<T>: null is visit_none, anything else is visit_some
    IF w.j = "null" THEN Ok(None)
    ELSE LET r == FromJson(ty.of, w)
         IN  IF r.ok THEN Ok(Some(r.val)) ELSE r

DeserializeString(w) ==
    \* deserialize_string: a JSON string and nothing else
    IF w.j = "str" THEN Ok(w.vs) ELSE InvalidType(w)

DeserializeBool_Truthy(w) ==
    CASE w.j = "bool" -> Ok(w.vb)
      [] w.j = "num" -> Ok(w.vn # 0)
      [] OTHER -> InvalidType(w)

DeserializeBool(w) ==
    \* deserialize_bool: a JSON true or false and nothing else
    IF w.j = "bool" THEN Ok(w.vb) ELSE InvalidType(w)

MissingField_AllRequired(f) == Err("missing_field", f.wire)

MissingField(f) ==
    \* a field with no member in the document: None for an Option field,
    \* Error::missing_field for any other
    IF f.ty.t = "option" THEN Ok(None) ELSE Err("missing_field", f.wire)

MissingFields(fields, i, acc) ==
    IF i > Len(fields) THEN Ok(acc)
    ELSE LET f == fields[i]
         IN  IF f.name \in DOMAIN acc THEN MissingFields(fields, i + 1, acc)
             ELSE LET r == MissingField(f)
                  IN  IF r.ok THEN MissingFields(fields, i + 1, acc @@ (f.name :> r.val))
                      ELSE r

VisitMap(fields, members, i, acc, strict) ==
    \* the generated visit_map: members in document order; a second member of
    \* one field is Error::duplicate_field; a key that names no field is
    \* skipped (Error::unknown_field for a strict field set); the first error
    \* ends the decode
    IF i > Len(members) THEN MissingFields(fields, 1, acc)
    ELSE LET idx == FieldIndex(fields, members[i].k)
         IN  IF idx = 0
             THEN IF strict THEN Err("unknown_field", members[i].k)
                  ELSE VisitMap(fields, members, i + 1, acc, strict)
             ELSE LET f == fields[idx]
                  IN  IF f.name \in DOMAIN acc THEN Err("duplicate_field", f.wire)
                      ELSE LET r == FromJson(f.ty, members[i].v)
                           IN  IF r.ok
                               THEN VisitMap(fields, members, i + 1,
                                             acc @@ (f.name :> r.val), strict)
                               ELSE r

VisitSeq(fields, elems, i, acc) ==
    \* the generated visit_seq: the fields by position
    IF i > Len(fields)
    THEN IF Len(elems) > Len(fields) THEN Err("invalid_length", "trailing") ELSE Ok(acc)
    ELSE IF i > Len(elems) THEN Err("invalid_length", fields[i].wire)
    ELSE LET r == FromJson(fields[i].ty, elems[i])
         IN  IF r.ok THEN VisitSeq(fields, elems, i + 1, acc @@ (fields[i].name :> r.val))
             ELSE r

DeserializeFields_DenyUnknown(fields, w, strict) ==
    \* as under #[serde(deny_unknown_fields)]
    CASE w.j = "obj" -> VisitMap(fields, w.vo, 1, <<>>, TRUE)
      [] w.j = "arr" -> VisitSeq(fields, w.va, 1, <<>>)
      [] OTHER -> InvalidType(w)

DeserializeFields(fields, w, strict) ==
    \* deserialize_struct: a JSON object or a JSON array
    CASE w.j = "obj" -> VisitMap(fields, w.vo, 1, <<>>, strict)
      [] w.j = "arr" -> VisitSeq(fields, w.va, 1, <<>>)
      [] OTHER -> InvalidType(w)

DeserializeContent(ty, var, w) ==
    \* the content of an externally tagged variant
    CASE var.shape = "unit" ->
            IF w.j = "null" THEN Ok(UnitVariant(var.name)) ELSE InvalidType(w)
      [] var.shape = "newtype" ->
            LET r == FromJson(var.of, w)
            IN  IF r.ok THEN Ok(NewtypeVariant(var.name, r.val)) ELSE r
      [] var.shape = "struct" ->
            LET r == DeserializeFields(var.fields, w, FALSE)
            IN  IF r.ok THEN Ok(StructVariant(var.name, r.val)) ELSE r

DeserializeEnum_FirstKey(ty, w) ==
    \* a decoder that takes the first member it knows and ignores the others
    IF w.j # "obj" THEN InvalidType(w)
    ELSE LET known == SelectSeq(w.vo, LAMBDA m : VariantIndex(ty.variants, m.k) # 0)
         IN  IF Len(known) = 0 THEN Err("invalid_value", "map with a single key")
             ELSE DeserializeContent(ty,
                      ty.variants[VariantIndex(ty.variants, known[1].k)], known[1].v)

DeserializeEnum(ty, w) ==
    \* deserialize_enum of an externally tagged enum: a string names a unit
    \* variant; an object must have exactly one member, whose key names the
    \* variant; a name outside the variants is Error::unknown_variant
    CASE w.j = "str" ->
            LET idx == VariantIndex(ty.variants, w.vs)
            IN  IF idx = 0 THEN Err("unknown_variant", w.vs)
                ELSE IF ty.variants[idx].shape = "unit"
                     THEN Ok(UnitVariant(ty.variants[idx].name))
                     ELSE Err("invalid_type", "unit variant")
      [] w.j = "obj" ->
            IF Len(w.vo) = 0 THEN Err("invalid_value", "map with a single key")
            ELSE LET idx == VariantIndex(ty.variants, w.vo[1].k)
                 IN  IF idx = 0 THEN Err("unknown_variant", w.vo[1].k)
                     ELSE LET r == DeserializeContent(ty, ty.variants[idx], w.vo[1].v)
                          IN  IF ~r.ok THEN r
                              ELSE IF Len(w.vo) > 1
                                   THEN Err("invalid_value", "map with a single key")
                                   ELSE r
      [] OTHER -> InvalidType(w)

DeserializeSeq(ty, elems, i, acc) ==
    IF i > Len(elems) THEN Ok(acc)
    ELSE LET r == FromJson(ty, elems[i])
         IN  IF r.ok THEN DeserializeSeq(ty, elems, i + 1, Append(acc, r.val)) ELSE r

DeserializeMap(ty, members, i, acc) ==
    \* HashMap: insert per member, a repeated key replaces the earlier value
    IF i > Len(members) THEN Ok(acc)
    ELSE LET r == FromJson(ty, members[i].v)
             k == members[i].k
         IN  IF ~r.ok THEN r
             ELSE DeserializeMap(ty, members, i + 1,
                                 [x \in (DOMAIN acc) \cup {k} |->
                                     IF x = k THEN r.val ELSE acc[x]])

DeserializeDuration(w) ==
    \* serde's impl for std::time::Duration: fields secs and nanos, both
    \* required, no other key allowed; nanos above one second carry into secs
    LET r == DeserializeFields(<<Plain("secs", U64), Plain("nanos", U32)>>, w, TRUE)
    IN  IF ~r.ok THEN r
        ELSE Ok(Duration(r.val.secs + (r.val.nanos \div 1000000000),
                         r.val.nanos % 1000000000))

FromJson(ty, w) ==
    CASE ty.t = "string" -> DeserializeString(w)
      [] ty.t = "bool" -> DeserializeBool(w)
      [] ty.t = "int" ->
            IF w.j # "num" THEN InvalidType(w)
            ELSE IF ~ty.signed /\ w.vn < 0 THEN Err("invalid_value", "negative")
            ELSE Ok(w.vn)
      [] ty.t = "float" -> IF w.j = "num" THEN Ok(Float(w.vn)) ELSE InvalidType(w)
      [] ty.t = "unit" -> IF w.j = "null" THEN Ok(Unit) ELSE InvalidType(w)
      [] ty.t = "duration" -> DeserializeDuration(w)
      [] ty.t = "option" -> DeserializeOption(ty, w)
      [] ty.t = "newtype" -> FromJson(ty.of, w)
      [] ty.t = "vec" ->
            IF w.j = "arr" THEN DeserializeSeq(ty.of, w.va, 1, <<>>) ELSE InvalidType(w)
      [] ty.t = "map" ->
            IF w.j = "obj" THEN DeserializeMap(ty.of, w.vo, 1, <<>>) ELSE InvalidType(w)
      [] ty.t = "struct" -> DeserializeFields(ty.fields, w, FALSE)
      [] ty.t = "enum" -> DeserializeEnum(ty, w)

(***************************************************************************)
(* The schema: one definition per type of the crate, fields and variants   *)
(* in declaration order with their serde names.                            *)
(***************************************************************************)
ObjectMeta ==
    \* k8s_openapi's ObjectMeta, reduced to its name; it omits absent fields
    Struct("ObjectMeta", SkipSerializingNone, <<
        Plain("name", Option(String))>>)

UInt32Value ==
    Struct("UInt32Value", SkipSerializingNone, <<
        Plain("value", Option(U32))>>)

WorkloadSelector ==
    Struct("WorkloadSelector", SkipSerializingNone, <<
        Plain("labels", HashMap(String))>>)

TLSmode_Lowercase ==
    \* the enum with one tag spelled in lower case
    Enum("TLSmode", SkipSerializingNone, <<
        VUnit("DISABLE", "DISABLE"),
        VUnit("SIMPLE", "simple"),
        VUnit("MUTUAL", "MUTUAL"),
        VUnit("ISTIO_MUTUAL", "ISTIO_MUTUAL")>>)

TLSmode ==
    Enum("TLSmode", SkipSerializingNone, <<
        VUnit("DISABLE", "DISABLE"),
        VUnit("SIMPLE", "SIMPLE"),
        VUnit("MUTUAL", "MUTUAL"),
        VUnit("ISTIO_MUTUAL", "ISTIO_MUTUAL")>>)

H2UpgradePolicy ==
    Enum("H2UpgradePolicy", SkipSerializingNone, <<
        VUnit("DEFAULT", "DEFAULT"),
        VUnit("DO_NOT_UPGRADE", "DO_NOT_UPGRADE"),
        VUnit("UPGRADE", "UPGRADE")>>)

TcpKeepalive ==
    Struct("TcpKeepalive", NoAttribute, <<
        Plain("probes", Option(U32)),
        Plain("time", Option(StdDuration)),
        Plain("interval", Option(StdDuration))>>)

TCPSettings ==
    Struct("TCPSettings", SkipSerializingNone, <<
        Field("max_connections", "maxConnections", Option(I32)),
        Field("connect_timeout", "connectTimeout", Option(StdDuration)),
        Field("tcp_keepalive", "tcpKeepalive", Option(TcpKeepalive))>>)

HTTPSettings ==
    Struct("HTTPSettings", SkipSerializingNone, <<
        Field("http1_max_pending_requests", "http1MaxPendingRequests", Option(I32)),
        Field("http2_max_requests", "http2MaxRequests", Option(I32)),
        Field("max_requests_per_connection", "maxRequestsPerConnection", Option(I32)),
        Field("max_retries", "maxRetries", Option(I32)),
        Field("idle_timeout", "idleTimeout", Option(StdDuration)),
        Field("h2_upgrade_policy", "h2UpgradePolicy", Option(H2UpgradePolicy)),
        Field("use_client_protocol", "useClientProtocol", Option(Bool))>>)

HTTPCookie ==
    Struct("HTTPCookie", NoAttribute, <<
        Plain("name", String),
        Plain("path", Option(String)),
        Plain("ttl", StdDuration)>>)

ConsistentHashLB ==
    Enum("ConsistentHashLB", NoAttribute, <<
        VStruct("HttpHeaderName", "HttpHeaderName", <<
            Field("http_header_name", "httpHeaderName", Option(String)),
            Field("minimum_ring_size", "minimumRingSize", Option(U64))>>),
        VStruct("HttpCookie", "HttpCookie", <<
            Field("http_cookie", "httpCookie", Option(HTTPCookie)),
            Field("minimum_ring_size", "minimumRingSize", Option(U64))>>),
        VStruct("UseSourceIp", "UseSourceIp", <<
            Field("use_source_ip", "useSourceIp", Option(Bool)),
            Field("minimum_ring_size", "minimumRingSize", Option(U64))>>),
        VStruct("HttpQueryParameterName", "HttpQueryParameterName", <<
            Field("http_query_parameter_name", "httpQueryParameterName", Option(String)),
            Field("minimum_ring_size", "minimumRingSize", Option(U64))>>)>>)

SimpleLB ==
    Enum("SimpleLB", NoAttribute, <<
        VUnit("ROUND_ROBIN", "ROUND_ROBIN"),
        VUnit("LEAST_CONN", "LEAST_CONN"),
        VUnit("RANDOM", "RANDOM"),
        VUnit("PASSTHROUGH", "PASSTHROUGH")>>)

Distribute ==
    Struct("Distribute", NoAttribute, <<
        Plain("from", String),
        Plain("to", HashMap(U32))>>)

Failover ==
    Struct("Failover", NoAttribute, <<
        Plain("from", String),
        Plain("to", String)>>)

Delegate ==
    Struct("Delegate", NoAttribute, <<
        Plain("name", Option(String)),
        Plain("namespace", Option(String))>>)

L4MatchAttributes ==
    Struct("L4MatchAttributes", NoAttribute, <<
        Plain("destinationSubnets", Option(Vec(String))),
        Plain("port", Option(I32)),
        Plain("sourceLabels", Option(HashMap(String))),
        Plain("gateways", Option(Vec(String))),
        Plain("sourceNamespace", Option(String))>>)

TlsMatchAttribures_ListOfGateways ==
    Struct("TlsMatchAttribures", NoAttribute, <<
        Plain("sniHosts", Vec(String)),
        Plain("destinationSubnets", Option(Vec(String))),
        Plain("port", Option(U32)),
        Plain("sourceLabels", Option(HashMap(String))),
        Plain("gateways", Option(Vec(String))),
        Plain("sourceNamespace", Option(String))>>)

TlsMatchAttribures ==
    Struct("TlsMatchAttribures", NoAttribute, <<
        Plain("sniHosts", Vec(String)),
        Plain("destinationSubnets", Option(Vec(String))),
        Plain("port", Option(U32)),
        Plain("sourceLabels", Option(HashMap(String))),
        Plain("gateways", Option(String)),
        Plain("sourceNamespace", Option(String))>>)

HttpRewrite ==
    Struct("HttpRewrite", NoAttribute, <<
        Plain("uri", Option(String)),
        Plain("authority", Option(String))>>)

StringMatch ==
    Enum("StringMatch", NoAttribute, <<
        VNewtype("exact", "exact", String),
        VNewtype("prefix", "prefix", String),
        VNewtype("regex", "regex", String)>>)

HttpRetry ==
    Struct("HttpRetry", NoAttribute, <<
        Plain("attempts", I32),
        Plain("perTryTimeout", Option(StdDuration)),
        Plain("retryOn", Option(String)),
        Plain("retryRemoteLocalities", Option(Bool))>>)

CorsPolicy ==
    Struct("CorsPolicy", NoAttribute, <<
        Plain("allowOrigins", Option(Vec(StringMatch))),
        Plain("allowMethods", Option(Vec(String))),
        Plain("allowHeaders", Option(Vec(String))),
        Plain("exposeHeaders", Option(Vec(String))),
        Plain("maxAge", Option(StdDuration)),
        Plain("allowCredentials", Option(Bool))>>)

PortSelector ==
    Struct("PortSelector", NoAttribute, <<
        Plain("number", Option(U32))>>)

Percent == Newtype("Percent", F32)

HeaderOperations ==
    Struct("HeaderOperations", NoAttribute, <<
        Plain("set", Option(HashMap(String))),
        Plain("add", Option(HashMap(String))),
        Plain("remove", Option(Vec(String)))>>)

FaultInjectionDelay ==
    Struct("FaultInjectionDelay", NoAttribute, <<
        Field("fixed_delay", "fixedDelay", StdDuration),
        Plain("percentage", Option(Percent)),
        Plain("percent", Option(I32))>>)

FaultInjectionAbort ==
    Struct("FaultInjectionAbort", NoAttribute, <<
        Field("http_status", "httpStatus", I32),
        Plain("percentage", Option(Percent))>>)

RedirectPortSelection ==
    Enum("RedirectPortSelection", NoAttribute, <<
        VUnit("FromProtocolDefault", "FROM_PROTOCOL_DEFAULT"),
        VUnit("FromRequestPort", "FROM_REQUEST_PORT")>>)

ConnectionPoolSettings ==
    Struct("ConnectionPoolSettings", NoAttribute, <<
        Plain("tcp", Option(TCPSettings)),
        Plain("http", Option(HTTPSettings))>>)

OutlierDetection ==
    Struct("OutlierDetection", NoAttribute, <<
        Field("split_external_local_origin_errors", "splitExternalLocalOriginErrors", Option(Bool)),
        Field("consecutive_local_origin_failures", "consecutiveLocalOriginFailures", Option(UInt32Value)),
        Field("consecutive_gateway_errors", "consecutiveGatewayErrors", Option(UInt32Value)),
        Field("consecutive5xx_errors", "consecutive5xxErrors", Option(UInt32Value)),
        Plain("interval", Option(StdDuration)),
        Field("base_ejection_time", "baseEjectionTime", Option(StdDuration)),
        Field("max_ejection_percent", "maxEjectionPercent", Option(I32)),
        Field("min_health_percent", "minHealthPercent", Option(I32))>>)

ClientTLSSettings ==
    Struct("ClientTLSSettings", NoAttribute, <<
        Plain("mode", TLSmode),
        Field("client_certificate", "clientCertificate", Option(String)),
        Field("private_key", "privateKey", Option(String)),
        Field("ca_certificates", "caCertificates", Option(String)),
        Field("credential_name", "credentialName", Option(String)),
        Field("subject_alt_names", "subjectAltNames", Option(Vec(String))),
        Plain("sni", Option(String)),
        Field("insecure_skip_verify", "insecureSkipVerify", Option(Bool))>>)

LocalityLoadBalancerSetting ==
    Struct("LocalityLoadBalancerSetting", NoAttribute, <<
        Plain("distribute", Option(Vec(Distribute))),
        Plain("failover", Option(Vec(Failover))),
        Field("failover_priority", "failoverPriority", Option(Vec(String))),
        Plain("enabled", Option(Bool))>>)

Port ==
    Struct("Port", SkipSerializingNone, <<
        Plain("number", I32),
        Plain("protocol", String),
        Plain("name", String),
        Field("target_port", "targetPort", Option(U32))>>)

gateway_TLSmode_Shared == TLSmode

gateway_TLSmode ==
    Enum("TLSmode", SkipSerializingNone, <<
        VUnit("PASSTHROUGH", "PASSTHROUGH"),
        VUnit("SIMPLE", "SIMPLE"),
        VUnit("MUTUAL", "MUTUAL"),
        VUnit("AUTO_PASSTHROUGH", "AUTO_PASSTHROUGH"),
        VUnit("ISTIO_MUTUAL", "ISTIO_MUTUAL")>>)

TLSProtocol ==
    Enum("TLSProtocol", SkipSerializingNone, <<
        VUnit("TLS_AUTO", "TLS_AUTO"),
        VUnit("TLSV1_0", "TLSV1_0"),
        VUnit("TLSV1_1", "TLSV1_1"),
        VUnit("TLSV1_2", "TLSV1_2"),
        VUnit("TLSV1_3", "TLSV1_3")>>)

Destination ==
    Struct("Destination", NoAttribute, <<
        Plain("host", String),
        Plain("subset", Option(String)),
        Plain("port", Option(PortSelector))>>)

Headers ==
    Struct("Headers", NoAttribute, <<
        Plain("request", Option(HeaderOperations)),
        Plain("response", Option(HeaderOperations))>>)

HttpMatchRequest ==
    Struct("HttpMatchRequest", NoAttribute, <<
        Plain("name", Option(String)),
        Plain("uri", Option(StringMatch)),
        Plain("scheme", Option(StringMatch)),
        Plain("method", Option(StringMatch)),
        Plain("authority", Option(StringMatch)),
        Plain("headers", Option(HashMap(StringMatch))),
        Plain("port", Option(I32)),
        Plain("sourceLabels", Option(HashMap(String))),
        Plain("gateways", Option(Vec(String))),
        Plain("queryParams", Option(HashMap(StringMatch))),
        Plain("ignoreUriCase", Option(Bool)),
        Plain("withoutHeaders", Option(HashMap(StringMatch))),
        Plain("sourceNamespace", Option(String))>>)

RouteDestination ==
    Struct("RouteDestination", NoAttribute, <<
        Plain("destination", Destination),
        Plain("weight", Option(I32))>>)

HttpRedirect ==
    Struct("HttpRedirect", NoAttribute, <<
        Plain("uri", Option(String)),
        Plain("authority", Option(String)),
        Plain("port", Option(U32)),
        Plain("derivePort", Option(RedirectPortSelection)),
        Plain("scheme", Option(String)),
        Plain("redirectCode", Option(I32))>>)

HttpRouteDestination ==
    Struct("HttpRouteDestination", NoAttribute, <<
        Plain("destination", Destination),
        Plain("weight", Option(I32)),
        Plain("headers", Option(Headers))>>)

HttpFaultInjection ==
    Struct("HttpFaultInjection", NoAttribute, <<
        Plain("delay", Option(FaultInjectionDelay)),
        Plain("abort", Option(FaultInjectionAbort))>>)

LoadBalancerSettings ==
    Enum("LoadBalancerSettings", NoAttribute, <<
        VStruct("Simple", "Simple", <<
            Plain("simple", SimpleLB),
            Plain("localityLbSetting", LocalityLoadBalancerSetting)>>),
        VStruct("ConsistentHash", "ConsistentHash", <<
            Plain("consistentHash", ConsistentHashLB),
            Plain("localityLbSetting", LocalityLoadBalancerSetting)>>)>>)

PortTrafficPolicy ==
    Struct("PortTrafficPolicy", NoAttribute, <<
        Plain("port", Option(PortSelector)),
        Field("load_balancer", "loadBalancer", Option(LoadBalancerSettings)),
        Field("connection_pool", "connectionPool", Option(ConnectionPoolSettings)),
        Field("outlier_detection", "outlierDetection", Option(OutlierDetection)),
        Plain("tls", Option(ClientTLSSettings))>>)

ServerTLSSettings ==
    Struct("ServerTLSSettings", SkipSerializingNone, <<
        Field("https_redirect", "httpsRedirect", Option(Bool)),
        Plain("mode", Option(gateway_TLSmode)),
        Field("server_certificate", "serverCertificate", Option(String)),
        Field("private_key", "privateKey", Option(String)),
        Field("ca_certificates", "caCertificates", Option(String)),
        Field("credential_name", "credentialName", Option(String)),
        Field("subject_alt_names", "subjectAltNames", Option(Vec(String))),
        Field("verify_certificate_spki", "verifyCertificateSpki", Option(Vec(String))),
        Field("verify_certificate_hash", "verifyCertificateHash", Option(Vec(String))),
        Field("min_protocol_version", "minProtocolVersion", Option(TLSProtocol)),
        Field("max_protocol_version", "maxProtocolVersion", Option(TLSProtocol)),
        Field("cipher_suites", "cipherSuites", Option(Vec(String)))>>)

TlsRoute ==
    Struct("TlsRoute", NoAttribute, <<
        Plain("match", Vec(TlsMatchAttribures)),
        Plain("route", Option(Vec(RouteDestination)))>>)

TcpRoute ==
    Struct("TcpRoute", NoAttribute, <<
        Plain("match", Option(Vec(L4MatchAttributes))),
        Plain("route", Option(Vec(RouteDestination)))>>)

HttpRoute ==
    Struct("HttpRoute", NoAttribute, <<
        Plain("name", Option(String)),
        Plain("match", Option(Vec(HttpMatchRequest))),
        Plain("route", Option(Vec(HttpRouteDestination))),
        Plain("redirect", Option(HttpRedirect)),
        Plain("delegate", Option(Delegate)),
        Plain("rewrite", Option(HttpRewrite)),
        Plain("timeout", Option(StdDuration)),
        Plain("retries", Option(HttpRetry)),
        Plain("fault", Option(HttpFaultInjection)),
        Plain("mirror", Option(Destination)),
        Plain("mirrorPercentage", Option(Percent)),
        Plain("corsPolicy", Option(CorsPolicy)),
        Plain("headers", Option(Headers)),
        Plain("mirrorPercent", Option(I32))>>)

TrafficPolicy ==
    Struct("TrafficPolicy", NoAttribute, <<
        Field("load_balancer", "loadBalancer", Option(LoadBalancerSettings)),
        Field("connection_pool", "connectionPool", Option(ConnectionPoolSettings)),
        Field("outlier_detection", "outlierDetection", Option(OutlierDetection)),
        Plain("tls", Option(ClientTLSSettings)),
        Field("port_level_settings", "portLevelSettings", Option(Vec(PortTrafficPolicy)))>>)

Subset ==
    Struct("Subset", NoAttribute, <<
        Plain("name", String),
        Plain("labels", HashMap(String)),
        Field("traffic_policy", "trafficPolicy", TrafficPolicy)>>)

Server ==
    Struct("Server", SkipSerializingNone, <<
        Plain("port", Port),
        Plain("bind", Option(String)),
        Plain("hosts", Vec(String)),
        Plain("tls", Option(ServerTLSSettings)),
        Plain("name", Option(String))>>)

VirtualServiceSpec ==
    Struct("VirtualServiceSpec", NoAttribute, <<
        Plain("hosts", Option(Vec(String))),
        Plain("gateways", Option(Vec(String))),
        Plain("http", Option(Vec(HttpRoute))),
        Plain("tls", Option(Vec(TlsRoute))),
        Plain("tcp", Option(Vec(TcpRoute))),
        Plain("exportTo", Option(Vec(String)))>>)

DestinationRuleSpec ==
    Struct("DestinationRuleSpec", NoAttribute, <<
        Plain("host", String),
        Field("traffic_policy", "trafficPolicy", TrafficPolicy),
        Plain("subsets", Option(Vec(Subset))),
        Field("export_to", "exportTo", Option(Vec(String)))>>)

GatewaySpec ==
    Struct("GatewaySpec", SkipSerializingNone, <<
        Plain("servers", Vec(Server)),
        Plain("selector", HashMap(String))>>)

VirtualService ==
    Struct("VirtualService", NoAttribute, <<
        Plain("metadata", ObjectMeta),
        Plain("spec", Option(VirtualServiceSpec)),
        Plain("status", Option(UnitTy))>>)

DestinationRule ==
    Struct("DestinationRule", NoAttribute, <<
        Plain("metadata", ObjectMeta),
        Plain("spec", Option(DestinationRuleSpec)),
        Plain("status", Option(UnitTy))>>)

Gateway ==
    Struct("Gateway", SkipSerializingNone, <<
        Plain("metadata", ObjectMeta),
        Plain("spec", Option(GatewaySpec)),
        Plain("status", Option(UnitTy))>>)


(***************************************************************************)
(* Every type with a derived Serialize / Deserialize is an entry point.    *)
(***************************************************************************)
(***************************************************************************)
(* impl Resource: the constants of the three kinds.                        *)
(***************************************************************************)
ResourceForDestinationRule ==
    [API_VERSION |-> "networking.istio.io/v1beta1",
     GROUP |-> "networking.istio.io",
     KIND |-> "DestinationRule",
     VERSION |-> "v1beta1",
     URL_PATH_SEGMENT |-> "destinationrules",
     Scope |-> "NamespaceResourceScope"]

ResourceForGateway_Copied ==
    [ResourceForDestinationRule EXCEPT !.KIND = "Gateway"]

ResourceForGateway ==
    [API_VERSION |-> "networking.istio.io/v1beta1",
     GROUP |-> "networking.istio.io",
     KIND |-> "Gateway",
     VERSION |-> "v1beta1",
     URL_PATH_SEGMENT |-> "gateways",
     Scope |-> "NamespaceResourceScope"]

ResourceForVirtualService ==
    [API_VERSION |-> "networking.istio.io/v1beta1",
     GROUP |-> "networking.istio.io",
     KIND |-> "VirtualService",
     VERSION |-> "v1beta1",
     URL_PATH_SEGMENT |-> "virtualservices",
     Scope |-> "NamespaceResourceScope"]

ResourceFor ==
    [DestinationRule |-> ResourceForDestinationRule,
     Gateway |-> ResourceForGateway,
     VirtualService |-> ResourceForVirtualService]

Types ==
    [ObjectMeta |-> ObjectMeta, 
     UInt32Value |-> UInt32Value,
     WorkloadSelector |-> WorkloadSelector,
     TLSmode |-> TLSmode,
     H2UpgradePolicy |-> H2UpgradePolicy,
     TcpKeepalive |-> TcpKeepalive,
     TCPSettings |-> TCPSettings,
     HTTPSettings |-> HTTPSettings,
     HTTPCookie |-> HTTPCookie,
     ConsistentHashLB |-> ConsistentHashLB,
     SimpleLB |-> SimpleLB,
     Distribute |-> Distribute,
     Failover |-> Failover,
     Delegate |-> Delegate,
     L4MatchAttributes |-> L4MatchAttributes,
     TlsMatchAttribures |-> TlsMatchAttribures,
     HttpRewrite |-> HttpRewrite,
     StringMatch |-> StringMatch,
     HttpRetry |-> HttpRetry,
     CorsPolicy |-> CorsPolicy,
     PortSelector |-> PortSelector,
     Percent |-> Percent,
     HeaderOperations |-> HeaderOperations,
     FaultInjectionDelay |-> FaultInjectionDelay,
     FaultInjectionAbort |-> FaultInjectionAbort,
     RedirectPortSelection |-> RedirectPortSelection,
     ConnectionPoolSettings |-> ConnectionPoolSettings,
     OutlierDetection |-> OutlierDetection,
     ClientTLSSettings |-> ClientTLSSettings,
     LocalityLoadBalancerSetting |-> LocalityLoadBalancerSetting,
     Port |-> Port,
     gateway_TLSmode |-> gateway_TLSmode,
     TLSProtocol |-> TLSProtocol,
     Destination |-> Destination,
     Headers |-> Headers,
     HttpMatchRequest |-> HttpMatchRequest,
     RouteDestination |-> RouteDestination,
     HttpRedirect |-> HttpRedirect,
     HttpRouteDestination |-> HttpRouteDestination,
     HttpFaultInjection |-> HttpFaultInjection,
     LoadBalancerSettings |-> LoadBalancerSettings,
     PortTrafficPolicy |-> PortTrafficPolicy,
     ServerTLSSettings |-> ServerTLSSettings,
     TlsRoute |-> TlsRoute,
     TcpRoute |-> TcpRoute,
     HttpRoute |-> HttpRoute,
     TrafficPolicy |-> TrafficPolicy,
     Subset |-> Subset,
     Server |-> Server,
     VirtualServiceSpec |-> VirtualServiceSpec,
     DestinationRuleSpec |-> DestinationRuleSpec,
     GatewaySpec |-> GatewaySpec,
     VirtualService |-> VirtualService,
     DestinationRule |-> DestinationRule,
     Gateway |-> Gateway]

TypeNames == DOMAIN Types

(***************************************************************************)
(* Values a caller can construct.  For a record: the value with every      *)
(* field at its simplest, the value with every field populated, and every  *)
(* value that differs from the simplest one in a single field.             *)
(***************************************************************************)
Strings == {"a", "b"}

FieldNames(fields) == {fields[i].name : i \in 1..Len(fields)}
FieldNamed(fields, n) == fields[CHOOSE i \in 1..Len(fields) : fields[i].name = n]
FirstKeys(n) == {MapKeyNames[i] : i \in 1..n}

RECURSIVE Default(_)
Default(ty) ==
    CASE ty.t = "string" -> "a"
      [] ty.t = "bool" -> FALSE
      [] ty.t = "int" -> 0
      [] ty.t = "float" -> Float(0)
      [] ty.t = "unit" -> Unit
      [] ty.t = "duration" -> Duration(0, 0)
      [] ty.t = "option" -> None
      [] ty.t = "newtype" -> Default(ty.of)
      [] ty.t = "vec" -> <<>>
      [] ty.t = "map" -> <<>>
      [] ty.t = "struct" ->
            [n \in FieldNames(ty.fields) |-> Default(FieldNamed(ty.fields, n).ty)]
      [] ty.t = "enum" ->
            LET var == ty.variants[1]
            IN  CASE var.shape = "unit" -> UnitVariant(var.name)
                  [] var.shape = "newtype" -> NewtypeVariant(var.name, Default(var.of))
                  [] var.shape = "struct" ->
                        StructVariant(var.name,
                            [n \in FieldNames(var.fields) |->
                                Default(FieldNamed(var.fields, n).ty)])

RECURSIVE Rich(_)
Rich(ty) ==
    CASE ty.t = "string" -> "b"
      [] ty.t = "bool" -> TRUE
      [] ty.t = "int" -> MaxInt
      [] ty.t = "float" -> Float(MaxInt)
      [] ty.t = "unit" -> Unit
      [] ty.t = "duration" -> Duration(MaxInt, MaxInt)
      [] ty.t = "option" -> Some(Rich(ty.of))
      [] ty.t = "newtype" -> Rich(ty.of)
      [] ty.t = "vec" -> [i \in 1..MaxVecLen |-> Rich(ty.of)]
      [] ty.t = "map" -> [k \in FirstKeys(MaxMapKeys) |-> Rich(ty.of)]
      [] ty.t = "struct" ->
            [n \in FieldNames(ty.fields) |-> Rich(FieldNamed(ty.fields, n).ty)]
      [] ty.t = "enum" ->
            LET var == ty.variants[Len(ty.variants)]
            IN  CASE var.shape = "unit" -> UnitVariant(var.name)
                  [] var.shape = "newtype" -> NewtypeVariant(var.name, Rich(var.of))
                  [] var.shape = "struct" ->
                        StructVariant(var.name,
                            [n \in FieldNames(var.fields) |->
                                Rich(FieldNamed(var.fields, n).ty)])

RECURSIVE Samples(_)
RECURSIVE RecordSamples(_)

RecordSamples(fields) ==
    LET names == FieldNames(fields)
        base == [n \in names |-> Default(FieldNamed(fields, n).ty)]
        rich == [n \in names |-> Rich(FieldNamed(fields, n).ty)]
    IN  {base, rich} \cup
        UNION {{[base EXCEPT ![n] = x] : x \in Samples(FieldNamed(fields, n).ty)} :
               n \in names}

Samples(ty) ==
    CASE ty.t = "string" -> Strings
      [] ty.t = "bool" -> BOOLEAN
      [] ty.t = "int" -> (0..MaxInt) \cup (IF ty.signed THEN {-1} ELSE {})
      [] ty.t = "float" -> {Float(n) : n \in 0..MaxInt} \cup {NaN}
      [] ty.t = "unit" -> {Unit}
      [] ty.t = "duration" -> {Duration(x, y) : x \in 0..MaxInt, y \in 0..MaxInt}
      [] ty.t = "option" -> {None} \cup {Some(x) : x \in Samples(ty.of)}
      [] ty.t = "newtype" -> Samples(ty.of)
      [] ty.t = "vec" ->
            {<<>>} \cup {<<x>> : x \in Samples(ty.of)}
                   \cup {[i \in 1..n |-> Rich(ty.of)] : n \in 1..MaxVecLen}
      [] ty.t = "map" ->
            {<<>>} \cup {[k \in {MapKeyNames[1]} |-> x] : x \in Samples(ty.of)}
                   \cup {[k \in FirstKeys(n) |-> Rich(ty.of)] : n \in 1..MaxMapKeys}
      [] ty.t = "struct" -> RecordSamples(ty.fields)
      [] ty.t = "enum" ->
            UNION {LET var == ty.variants[i]
                   IN  CASE var.shape = "unit" -> {UnitVariant(var.name)}
                         [] var.shape = "newtype" ->
                               {NewtypeVariant(var.name, x) : x \in Samples(var.of)}
                         [] var.shape = "struct" ->
                               {StructVariant(var.name, r) : r \in RecordSamples(var.fields)}
                   : i \in 1..Len(ty.variants)}


(***************************************************************************)
(* Documents a peer can send.  The documents the crate itself writes, the  *)
(* same with one member removed, nulled, retyped, repeated or added, and   *)
(* the documents of the Istio API as the doc comments of the crate show    *)
(* them.                                                                   *)
(***************************************************************************)
Without(w, i) == JObj(SubSeq(w.vo, 1, i - 1) \o SubSeq(w.vo, i + 1, Len(w.vo)))
WithoutKey(w, k) == JObj(SelectSeq(w.vo, LAMBDA m : m.k # k))
WithValue(w, i, x) == JObj([w.vo EXCEPT ![i] = Member(w.vo[i].k, x)])
WithMember(w, k, x) == JObj(Append(w.vo, Member(k, x)))

Strangers == {JNull, JStr("BOGUS"), JStr("simple"), JNum(0), JBool(TRUE),
              JObj(<<>>), JArr(<<>>)}

Malformed(x) ==
    \* a nested object with its first member once more, or with an array in
    \* the place of its first member's value
    IF x.j = "obj" /\ Len(x.vo) > 0
    THEN {WithMember(x, x.vo[1].k, y) : y \in {x.vo[1].v, JStr("a"), JNum(0)}}
         \cup {WithValue(x, 1, JArr(<<>>))}
    ELSE {}

Variations(w) ==
    IF w.j = "obj"
    THEN {WithMember(w, "unknownKey", JStr("x"))}
         \cup {Without(w, i) : i \in 1..Len(w.vo)}
         \cup {WithValue(w, i, x) : i \in 1..Len(w.vo), x \in Strangers}
         \cup {WithMember(w, w.vo[i].k, w.vo[i].v) : i \in 1..Len(w.vo)}
         \cup UNION {{WithValue(w, i, x) : x \in Malformed(w.vo[i].v)} :
                        i \in 1..Len(w.vo)}
    ELSE Strangers

Written(ty) == {ToJson(ty, v, ord) : v \in Samples(ty), ord \in MapOrders}

IstioCookie ==
    \* httpCookie: {name: user, ttl: 0s}
    JObj(<<Member("name", JStr("user")), Member("ttl", JStr("0s"))>>)

IstioConsistentHash ==
    \* consistentHash as the Istio API writes it: the members of the oneof
    \* side by side with minimumRingSize
    LET oneof == <<Member("httpHeaderName", JStr("x-user")),
                   Member("httpCookie", IstioCookie),
                   Member("useSourceIp", JBool(TRUE)),
                   Member("httpQueryParameterName", JStr("user"))>>
        ring == <<Member("minimumRingSize", JNum(MaxInt))>>
    IN  {JObj(SelectSeq(oneof, LAMBDA m : m.k \in ks) \o tail) :
            ks \in SUBSET {"httpHeaderName", "httpCookie", "useSourceIp",
                           "httpQueryParameterName"},
            tail \in {<<>>, ring}}

IstioLoadBalancer ==
    \* loadBalancer: {simple: LEAST_CONN} and loadBalancer: {consistentHash: ...}
    {JObj(<<Member("simple", JStr(tag))>>) :
        tag \in {"ROUND_ROBIN", "LEAST_CONN", "RANDOM", "PASSTHROUGH"}}
    \cup {JObj(<<Member("consistentHash", c)>>) : c \in IstioConsistentHash}

IstioTrafficPolicy == {JObj(<<Member("loadBalancer", lb)>>) : lb \in IstioLoadBalancer}

IstioDestinationRuleSpec ==
    {JObj(<<Member("host", JStr(h)), Member("trafficPolicy", tp)>>) :
        h \in Strings, tp \in IstioTrafficPolicy}
    \cup {JObj(<<Member("host", JStr(h))>>) : h \in Strings}

IstioDurations ==
    \* format: 1h/1m/1s/1ms, and a number that lacks the unit
    {"30ms", "0ms", "30", "60000ms", "60s", "1m"}

IstioTCPSettings ==
    \* tcp: {connectTimeout: 30ms}
    {JObj(<<Member("connectTimeout", JStr(d))>>) : d \in IstioDurations}

IstioTcpKeepalive ==
    \* tcpKeepalive: {time: 7200s}
    {JObj(<<Member("time", JStr(d))>>) : d \in IstioDurations}

IstioResource ==
    \* apiVersion: networking.istio.io/v1beta1, kind: K, metadata: {name: ..},
    \* for each kind K and for a kind and a version of another API
    {JObj(<<Member("apiVersion", JStr(v)), Member("kind", JStr(k)),
            Member("metadata", JObj(<<Member("name", JStr("a"))>>))>>) :
        v \in {"networking.istio.io/v1beta1", "v1"},
        k \in {"DestinationRule", "Gateway", "VirtualService", "Pod"}}

IstioSubset ==
    \* subsets: [{name: v1, labels: {version: v1}}], and a subset of a name only
    {JObj(<<Member("name", JStr(n))>>) : n \in Strings}
    \cup {JObj(<<Member("name", JStr(n)),
                 Member("labels", JObj(<<Member("version", JStr(n))>>))>>) :
             n \in Strings}

IstioUInt32Value ==
    \* The JSON representation for UInt32Value is JSON number.
    {JNum(n) : n \in 0..MaxInt}

IstioOutlierDetection ==
    \* outlierDetection: {consecutive5xxErrors: 7}
    {JObj(<<Member(k, n)>>) :
        k \in {"consecutive5xxErrors", "consecutiveGatewayErrors",
               "consecutiveLocalOriginFailures"},
        n \in IstioUInt32Value}

IstioStringMatch ==
    \* uri: {prefix: "/wpcatalog"}, and objects of none, two or three of the keys
    LET oneof == <<Member("exact", JStr("a")), Member("prefix", JStr("b")),
                   Member("regex", JStr("a"))>>
    IN  {JObj(SelectSeq(oneof, LAMBDA m : m.k \in ks)) :
            ks \in SUBSET {"exact", "prefix", "regex"}}

IstioGateways ==
    \* gateways: mesh, and gateways: [mesh]
    {JStr(g) : g \in Strings} \cup {JArr(<<JStr(g)>>) : g \in Strings}

IstioMatch ==
    \* a match block that names gateways
    {JObj(<<Member("gateways", g)>>) : g \in IstioGateways}

IstioTlsMatch ==
    \* a TLS match block that names gateways
    {JObj(<<Member("sniHosts", JArr(<<JStr(h)>>)), Member("gateways", g)>>) :
        h \in Strings, g \in IstioGateways}

IstioTLSModes ==
    \* the TLS modes of the Istio API, of servers and of clients
    {"PASSTHROUGH", "SIMPLE", "MUTUAL", "AUTO_PASSTHROUGH", "ISTIO_MUTUAL", "DISABLE"}

IstioTLSSettings ==
    \* tls: {mode: SIMPLE}
    {JObj(<<Member("mode", JStr(tag))>>) : tag \in IstioTLSModes}

Foreign(name) ==
    CASE name = "ConsistentHashLB" -> IstioConsistentHash
      [] name \in {"ServerTLSSettings", "ClientTLSSettings"} -> IstioTLSSettings
      [] name \in {"TLSmode", "gateway_TLSmode"} -> {JStr(tag) : tag \in IstioTLSModes}
      [] name \in {"L4MatchAttributes", "HttpMatchRequest"} -> IstioMatch
      [] name = "TlsMatchAttribures" -> IstioTlsMatch
      [] name = "StringMatch" -> IstioStringMatch
      [] name = "UInt32Value" -> IstioUInt32Value
      [] name = "OutlierDetection" -> IstioOutlierDetection
      [] name = "Subset" -> IstioSubset
      [] name \in {"DestinationRule", "Gateway", "VirtualService"} -> IstioResource
      [] name = "TCPSettings" -> IstioTCPSettings
      [] name = "TcpKeepalive" -> IstioTcpKeepalive
      [] name = "LoadBalancerSettings" -> IstioLoadBalancer
      [] name = "TrafficPolicy" -> IstioTrafficPolicy
      [] name = "DestinationRuleSpec" -> IstioDestinationRuleSpec
      [] OTHER -> {}

Internal(ty, w) ==
    \* the document with one member under the Rust identifier of its field
    \* instead of the serde name
    IF ty.t = "struct" /\ w.j = "obj"
    THEN LET renamed == {i \in 1..Len(w.vo) :
                            /\ FieldIndex(ty.fields, w.vo[i].k) # 0
                            /\ ty.fields[FieldIndex(ty.fields, w.vo[i].k)].name
                                  # w.vo[i].k}
         IN  {JObj([w.vo EXCEPT ![i] =
                      Member(ty.fields[FieldIndex(ty.fields, w.vo[i].k)].name,
                             w.vo[i].v)]) : i \in renamed}
    ELSE {}

Documents(name) ==
    LET ty == Types[name]
    IN  Written(ty)
        \cup Variations(ToJson(ty, Default(ty), "asc"))
        \cup Variations(ToJson(ty, Rich(ty), "asc"))
        \cup Internal(ty, ToJson(ty, Rich(ty), "asc"))
        \cup Foreign(name)

(***************************************************************************)
(* The state: one caller of the crate.  It holds a typed value it built or *)
(* a document it received, serializes the one and deserializes the other.  *)
(***************************************************************************)
VARIABLES
    type,       \* the name of the type T of the calls
    value,      \* the T the caller built, if any
    doc,        \* the document in hand, if any
    result,     \* what from_str::<T>(doc) returned, if it was called
    redoc,      \* the document written from the decoded value, if any
    threads,    \* concurrent callers: the call of each and how far it is
    scratch,    \* the buffer each running call writes to
    written,    \* the metadata last stored through metadata_mut(), if any
    seen        \* what the live borrow from metadata() shows, if any

vars == <<type, value, doc, result, redoc, threads, scratch, written, seen>>

Absent == [has |-> FALSE]
Present(x) == [has |-> TRUE, it |-> x]

Init ==
    /\ type \in TypeNames
    /\ \/ /\ value \in {Present(v) : v \in Samples(Types[type])}
          /\ doc = Absent
       \/ /\ value = Absent
          /\ doc \in {Present(w) : w \in Documents(type)}
    /\ result = Absent
    /\ redoc = Absent
    /\ threads = <<>>
    /\ scratch = <<>>
    /\ written = Absent
    /\ seen = Absent

Serialize ==
    \* serde_json::to_string(&value)
    /\ value.has
    /\ ~doc.has
    /\ \E ord \in MapOrders : doc' = Present(ToJson(Types[type], value.it, ord))
    /\ UNCHANGED <<type, value, result, redoc, threads, scratch, written, seen>>

Deserialize ==
    \* serde_json::from_str::<T>(doc)
    /\ doc.has
    /\ ~result.has
    /\ result' = Present(FromJson(Types[type], doc.it))
    /\ UNCHANGED <<type, value, doc, redoc, threads, scratch, written, seen>>

Reserialize ==
    \* serde_json::to_string(&t) of the t that from_str returned for a
    \* document received from a peer
    /\ ~value.has
    /\ result.has
    /\ result.it.ok
    /\ ~redoc.has
    /\ \E ord \in MapOrders :
          redoc' = Present(ToJson(Types[type], result.it.val, ord))
    /\ UNCHANGED <<type, value, doc, result, threads, scratch, written, seen>>

Next == Serialize \/ Deserialize \/ Reserialize

Spec == Init /\ [][Next]_vars

(***************************************************************************)
(* Concurrent callers.  Each thread makes one call on a resource kind: it  *)
(* enters the call, which works in a buffer, and returns from it.  The     *)
(* steps of different threads interleave freely.                           *)
(***************************************************************************)
Threads == 1..NumThreads

ConcurrentCalls ==
    \* to_string(&r) and from_str::<K>(w) for the resources of each kind K
    UNION {
        {[op |-> "to_string", type |-> k, arg |-> v, ord |-> "asc"] :
            v \in {Default(Types[k]), Rich(Types[k])}}
        \cup {[op |-> "from_str", type |-> k, arg |-> w, ord |-> "asc"] :
            w \in {ToJson(Types[k], Default(Types[k]), "asc"),
                   ToJson(Types[k], Rich(Types[k]), "asc")}} :
        k \in {"DestinationRule", "Gateway", "VirtualService"}}

Alone(call) ==
    \* what the call returns
    IF call.op = "to_string"
    THEN Ok(ToJson(Types[call.type], call.arg, call.ord))
    ELSE FromJson(Types[call.type], call.arg)

ScratchOf_Static(t) == 1

ScratchOf(t) ==
    \* the buffer of a call is a local of the call: serde_json::to_string
    \* writes to a Vec it creates, from_str reads with a Deserializer it creates
    t

InitConcurrent ==
    /\ type = "DestinationRule"
    /\ value = Absent
    /\ doc = Absent
    /\ result = Absent
    /\ redoc = Absent
    /\ threads \in [Threads -> {[call |-> c, pc |-> "ready", out |-> Absent] :
                                    c \in ConcurrentCalls}]
    /\ scratch = [t \in Threads |-> Absent]
    /\ written = Absent
    /\ seen = Absent

Begin(t) ==
    \* the call is entered and does its work in its buffer
    /\ threads[t].pc = "ready"
    /\ scratch' = [scratch EXCEPT ![ScratchOf(t)] = Present(Alone(threads[t].call))]
    /\ threads' = [threads EXCEPT ![t].pc = "running"]
    /\ UNCHANGED <<type, value, doc, result, redoc, written, seen>>

End(t) ==
    \* the call returns what its buffer holds
    /\ threads[t].pc = "running"
    /\ threads' = [threads EXCEPT ![t].pc = "done",
                                  ![t].out = scratch[ScratchOf(t)]]
    /\ UNCHANGED <<type, value, doc, result, redoc, scratch, written, seen>>

NextConcurrent == \E t \in Threads : Begin(t) \/ End(t)

SpecConcurrent == InitConcurrent /\ [][NextConcurrent]_vars

(***************************************************************************)
(* impl Metadata: the owner of a resource reads its metadata and writes it *)
(* through the two accessors.                                              *)
(***************************************************************************)
metadata(r) ==
    \* fn metadata(&self) -> &ObjectMeta { &self.metadata }
    r.metadata

metadata_mut_Fresh(r, m) ==
    [n \in DOMAIN r |-> IF n = "metadata" THEN m ELSE None]

metadata_mut(r, m) ==
    \* *r.metadata_mut() = m, with fn metadata_mut(&mut self) -> &mut ObjectMeta
    \* { &mut self.metadata }
    [r EXCEPT !.metadata = m]

InitMetadata ==
    /\ type \in {"DestinationRule", "Gateway", "VirtualService"}
    /\ value \in {Present(v) : v \in Samples(Types[type])}
    /\ doc = Absent
    /\ result = Absent
    /\ redoc = Absent
    /\ threads = <<>>
    /\ scratch = <<>>
    /\ written = Absent
    /\ seen = Absent

ReadMetadata ==
    \* let m = r.metadata();
    /\ seen' = Present(metadata(value.it))
    /\ UNCHANGED <<type, value, doc, result, redoc, threads, scratch, written>>

WriteMetadata ==
    \* *r.metadata_mut() = m; no shared borrow outlives the exclusive one
    \E m \in Samples(ObjectMeta) :
        /\ value' = Present(metadata_mut(value.it, m))
        /\ written' = Present(m)
        /\ seen' = Absent
        /\ UNCHANGED <<type, doc, result, redoc, threads, scratch>>

NextMetadata == ReadMetadata \/ WriteMetadata

SpecMetadata == InitMetadata /\ [][NextMetadata]_vars

(***************************************************************************)
(* Properties.                                                             *)
(***************************************************************************)
Resources == {"DestinationRule", "Gateway", "VirtualService"}
Encoded == value.has /\ doc.has
RoundTripped == value.has /\ doc.has /\ result.has
Decoded == doc.has /\ result.has

RECURSIVE ContainsNull(_)
ContainsNull(w) ==
    \* some object in w has a member whose value is null
    CASE w.j = "obj" ->
            \E i \in 1..Len(w.vo) : w.vo[i].v.j = "null" \/ ContainsNull(w.vo[i].v)
      [] w.j = "arr" -> \E i \in 1..Len(w.va) : ContainsNull(w.va[i])
      [] OTHER -> FALSE

\* C1: round-trip law: for each of the three resource kinds and every typed
\* value v that can be constructed, decode(encode(v)) equals v.
C1_RoundTrip ==
    (type \in Resources /\ RoundTripped) => result.it = Ok(value.it)

\* C2: omission law: no encoded object contains a key whose value is null (an
\* absent optional field leaves no key behind).
C2_OmissionLaw ==
    Encoded => ~ContainsNull(doc.it)

OptionalWireNames(fields) ==
    {fields[i].wire : i \in {h \in 1..Len(fields) : fields[h].ty.t = "option"}}

WithNull(w, k) ==
    \* w with key k set to null (in place when w has k once)
    IF Cardinality({i \in 1..Len(w.vo) : w.vo[i].k = k}) = 1
    THEN JObj([i \in 1..Len(w.vo) |->
                  IF w.vo[i].k = k THEN Member(k, JNull) ELSE w.vo[i]])
    ELSE WithMember(WithoutKey(w, k), k, JNull)

FieldWired(fields, k) == fields[CHOOSE i \in 1..Len(fields) : fields[i].wire = k]

MissingIsNull(ty, fields, w, k) ==
    \* decode agrees on w without k and w with k: null, and the field is None
    LET gone == FromJson(ty, WithoutKey(w, k))
    IN  /\ gone = FromJson(ty, WithNull(w, k))
        /\ gone.ok => gone.val[FieldWired(fields, k).name] = None

IsVariantObject(ty, w) ==
    \* w is {"<variant>": {...}} for a variant of ty with named fields
    /\ ty.t = "enum" /\ w.j = "obj" /\ Len(w.vo) = 1
    /\ VariantIndex(ty.variants, w.vo[1].k) # 0
    /\ ty.variants[VariantIndex(ty.variants, w.vo[1].k)].shape = "struct"
    /\ w.vo[1].v.j = "obj"

\* C3: for every record and every optional field, decoding the document with
\* the field's key removed and decoding it with the key set to null give the
\* same result, and in that result the field is absent.
C3_MissingEqualsNull ==
    Decoded =>
        LET ty == Types[type]
            w == doc.it
        IN  /\ (ty.t = "struct" /\ w.j = "obj") =>
                  \A k \in OptionalWireNames(ty.fields) : MissingIsNull(ty, ty.fields, w, k)
            /\ IsVariantObject(ty, w) =>
                  LET var == ty.variants[VariantIndex(ty.variants, w.vo[1].k)]
                  IN  \A k \in OptionalWireNames(var.fields) :
                         LET gone == FromJson(ty, JObj(<<Member(var.wire,
                                                   WithoutKey(w.vo[1].v, k))>>))
                         IN  /\ gone = FromJson(ty, JObj(<<Member(var.wire,
                                                   WithNull(w.vo[1].v, k))>>))
                             /\ gone.ok =>
                                   gone.val.vfields[FieldWired(var.fields, k).name] = None

\* C3 witness: a VirtualServiceSpec document that carries the optional key
\* hosts with a list has been decoded.
C3_Witness ==
    /\ Decoded /\ type = "VirtualServiceSpec" /\ result.it.ok
    /\ HasKey(doc.it, "hosts") /\ Get(doc.it, "hosts").j = "arr"
    /\ result.it.val.hosts.some

ClientTLSTags == {"DISABLE", "SIMPLE", "MUTUAL", "ISTIO_MUTUAL"}

LeadsWithString(w, k) ==
    w.j = "obj" /\ Len(w.vo) > 0 /\ w.vo[1].k = k /\ w.vo[1].v.j = "str"

\* C4: ClientTLSSettings.mode decodes exactly the strings DISABLE, SIMPLE,
\* MUTUAL and ISTIO_MUTUAL, each to its own variant; any other string fails
\* with an unknown-variant error that names the string.
C4_ClientTLSmodeExact ==
    /\ (type = "TLSmode" /\ Decoded /\ doc.it.j = "str") =>
          result.it = IF doc.it.vs \in ClientTLSTags
                      THEN Ok(UnitVariant(doc.it.vs))
                      ELSE Err("unknown_variant", doc.it.vs)
    /\ (type = "ClientTLSSettings" /\ Decoded /\ LeadsWithString(doc.it, "mode")) =>
          LET tag == doc.it.vo[1].v.vs
          IN  IF tag \in ClientTLSTags
              THEN result.it.ok => result.it.val.mode = UnitVariant(tag)
              ELSE result.it = Err("unknown_variant", tag)

\* C4 witness: a ClientTLSSettings document with mode BOGUS was rejected.
C4_Witness ==
    /\ type = "ClientTLSSettings" /\ Decoded /\ LeadsWithString(doc.it, "mode")
    /\ doc.it.vo[1].v.vs = "BOGUS"
    /\ ~result.it.ok

PayloadFreeEnums ==
    {"SimpleLB", "TLSmode", "gateway_TLSmode", "TLSProtocol", "H2UpgradePolicy",
     "RedirectPortSelection"}

WireTag(variant) ==
    CASE variant = "FromProtocolDefault" -> "FROM_PROTOCOL_DEFAULT"
      [] variant = "FromRequestPort" -> "FROM_REQUEST_PORT"
      [] OTHER -> variant

\* C5: a payload-free enum variant encodes as the bare string of its wire tag,
\* and two variants of one enum never encode to the same string.
C5_EnumAsTagString ==
    (type \in PayloadFreeEnums /\ Encoded) =>
        /\ doc.it = JStr(WireTag(value.it.variant))
        /\ \A v \in Samples(Types[type]) : \A ord \in MapOrders :
              v # value.it => ToJson(Types[type], v, ord) # doc.it

\* C5 witness: RedirectPortSelection::FromProtocolDefault was encoded.
C5_Witness ==
    /\ type = "RedirectPortSelection" /\ Encoded
    /\ value.it = UnitVariant("FromProtocolDefault")
    /\ doc.it = JStr("FROM_PROTOCOL_DEFAULT")

Discriminators == {"httpHeaderName", "httpCookie", "useSourceIp", "httpQueryParameterName"}

VariantOfKey(k) ==
    CASE k = "httpHeaderName" -> "HttpHeaderName"
      [] k = "httpCookie" -> "HttpCookie"
      [] k = "useSourceIp" -> "UseSourceIp"
      [] k = "httpQueryParameterName" -> "HttpQueryParameterName"

RECURSIVE KeysDeep(_)
KeysDeep(w) ==
    \* the keys of w and of the objects nested in it
    CASE w.j = "obj" -> Keys(w) \cup UNION {KeysDeep(w.vo[i].v) : i \in 1..Len(w.vo)}
      [] w.j = "arr" -> UNION {KeysDeep(w.va[i]) : i \in 1..Len(w.va)}
      [] OTHER -> {}

\* C6: a ConsistentHashLB object decodes to the variant whose discriminating
\* key it carries (httpHeaderName, httpCookie, useSourceIp or
\* httpQueryParameterName), with or without minimumRingSize next to it.
C6_VariantByDiscriminatingKey ==
    (/\ type = "ConsistentHashLB" /\ Decoded /\ doc.it.j = "obj"
     /\ Cardinality(Keys(doc.it) \cap Discriminators) = 1
     /\ Keys(doc.it) \subseteq Discriminators \cup {"minimumRingSize"}
     /\ Len(doc.it.vo) = Cardinality(Keys(doc.it)))
    => /\ result.it.ok
       /\ \A k \in Keys(doc.it) \cap Discriminators :
             result.it.val.variant = VariantOfKey(k)

\* C7: decoding a ConsistentHashLB object succeeds only when exactly one
\* discriminating key is present in it.
C7_ExactlyOneDiscriminator ==
    (type = "ConsistentHashLB" /\ Decoded /\ result.it.ok)
    => Cardinality(KeysDeep(doc.it) \cap Discriminators) = 1

OwnWireNames(ty, v) ==
    LET var == VariantNamed(ty.variants, v.variant)
    IN  {var.fields[i].wire : i \in 1..Len(var.fields)}

\* C8: the object a union value (ConsistentHashLB, LoadBalancerSettings) is
\* encoded to has only keys that are wire names of fields of the active
\* variant, and no key that names the variant itself.
C8_UnionEmitsOwnFields ==
    (type \in {"ConsistentHashLB", "LoadBalancerSettings"} /\ Encoded)
    => /\ doc.it.j = "obj"
       /\ Keys(doc.it) \subseteq OwnWireNames(Types[type], value.it)
       /\ value.it.variant \notin Keys(doc.it)

\* C9: union exclusivity: a LoadBalancerSettings::ConsistentHash value, and a
\* ConsistentHashLB value on its own, encode and decode back to the same
\* variant with the same field values, absent optional fields included.
C9_UnionExclusivity ==
    /\ (type = "LoadBalancerSettings" /\ RoundTripped
            /\ value.it.variant = "ConsistentHash") =>
          /\ result.it.ok
          /\ result.it.val.variant = "ConsistentHash"
          /\ result.it.val.vfields.consistentHash.variant =
                value.it.vfields.consistentHash.variant
          /\ result.it.val = value.it
    /\ (type = "ConsistentHashLB" /\ RoundTripped) =>
          /\ result.it.ok
          /\ result.it.val.variant = value.it.variant
          /\ result.it.val = value.it

\* C9 witness: ConsistentHash with UseSourceIp, its optional fields absent,
\* went through encode and decode.
C9_Witness ==
    /\ type = "LoadBalancerSettings" /\ RoundTripped
    /\ value.it.variant = "ConsistentHash"
    /\ value.it.vfields.consistentHash =
          StructVariant("UseSourceIp",
              [n \in {"use_source_ip", "minimum_ring_size"} |-> None])
    /\ result.it.ok

RatingsRule(h) ==
    \* spec: {host: h, trafficPolicy: {loadBalancer: {simple: LEAST_CONN}}}
    JObj(<<Member("host", JStr(h)),
           Member("trafficPolicy",
               JObj(<<Member("loadBalancer",
                   JObj(<<Member("simple", JStr("LEAST_CONN"))>>))>>))>>)

\* C10: the DestinationRuleSpec {host: H, trafficPolicy: {loadBalancer:
\* {simple: LEAST_CONN}}} decodes to host H and the load balancer Simple with
\* LEAST_CONN: localityLbSetting may be left out and the variant is chosen by
\* the key simple.
C10_SimpleWithoutLocality ==
    \A h \in Strings :
        (type = "DestinationRuleSpec" /\ Decoded /\ doc.it = RatingsRule(h))
        => /\ result.it.ok
           /\ result.it.val.host = h
           /\ result.it.val.traffic_policy.load_balancer.some
           /\ result.it.val.traffic_policy.load_balancer.val.variant = "Simple"
           /\ result.it.val.traffic_policy.load_balancer.val.vfields.simple =
                 UnitVariant("LEAST_CONN")

Reencoded == ~value.has /\ doc.has /\ result.has /\ redoc.has

\* C11: decoding the DestinationRuleSpec {host: H, trafficPolicy:
\* {loadBalancer: {simple: LEAST_CONN}}} and encoding the result again gives
\* the same object: the same keys in the same order with the same values, no
\* null and no default member added.
C11_EncodeAfterDecode ==
    \A h \in Strings :
        (type = "DestinationRuleSpec" /\ Decoded /\ ~value.has
            /\ doc.it = RatingsRule(h))
        => /\ result.it.ok
           /\ redoc.has => redoc.it = doc.it

Received == ~value.has /\ Decoded

IsDuration(ty) ==
    \/ ty.t = "duration"
    \/ ty.t = "option" /\ ty.of.t = "duration"

Milliseconds(ms) == Duration(ms \div 1000, (ms % 1000) * 1000000)

\* C12: a duration field is a wire string of digits followed by h, m, s or
\* ms.  "30ms" decodes to 30 milliseconds, "0ms" is accepted, "30" fails with
\* InvalidDuration, and encode writes every duration field it emits as a
\* string.
C12_DurationIsUnitString ==
    /\ (type = "TCPSettings" /\ Received
           /\ doc.it = JObj(<<Member("connectTimeout", JStr("30ms"))>>))
       => /\ result.it.ok
          /\ result.it.val.connect_timeout = Some(Milliseconds(30))
    /\ (type = "TCPSettings" /\ Received
           /\ doc.it = JObj(<<Member("connectTimeout", JStr("0ms"))>>))
       => /\ result.it.ok
          /\ result.it.val.connect_timeout = Some(Milliseconds(0))
    /\ (type = "TCPSettings" /\ Received
           /\ doc.it = JObj(<<Member("connectTimeout", JStr("30"))>>))
       => /\ ~result.it.ok
          /\ result.it.err.kind = "invalid_duration"
    /\ (Encoded /\ Types[type].t = "struct")
       => \A i \in 1..Len(Types[type].fields) :
            LET f == Types[type].fields[i]
            IN  (IsDuration(f.ty) /\ HasKey(doc.it, f.wire)
                    /\ Get(doc.it, f.wire).j # "null")
                => Get(doc.it, f.wire).j = "str"

\* C13: duration strings that denote the same length of time, "60000ms",
\* "60s" and "1m", decode to equal values, and what encode writes for the
\* decoded value is a duration string that decodes to the same value.
C13_DurationByLength ==
    \A s \in {"60000ms", "60s", "1m"} :
        (type = "TcpKeepalive" /\ Received
            /\ doc.it = JObj(<<Member("time", JStr(s))>>))
        => /\ result.it.ok
           /\ result.it.val.time = Some(Milliseconds(60000))
           /\ redoc.has
              => /\ Get(redoc.it, "time").j = "str"
                 /\ FromJson(Types[type], redoc.it) = result.it

NamedRequired ==
    \* the non-optional keys the claim C14 names, by type
    [DestinationRuleSpec |-> {"host"},
     Destination |-> {"host"},
     GatewaySpec |-> {"servers", "selector"},
     Server |-> {"port", "hosts"},
     Port |-> {"number", "protocol", "name"},
     ClientTLSSettings |-> {"mode"},
     HTTPCookie |-> {"name", "ttl"},
     HttpRetry |-> {"attempts"},
     TlsMatchAttribures |-> {"sniHosts"}]

AbsentRequired(fields, w) ==
    {i \in 1..Len(fields) : fields[i].ty.t # "option" /\ ~HasKey(w, fields[i].wire)}

MembersDecode(fields, w) ==
    \* every member of the object is the only one of its key and, where the
    \* key names a field, holds a value of the field's type
    \A i \in 1..Len(w.vo) :
        /\ \A h \in 1..Len(w.vo) : w.vo[h].k = w.vo[i].k => h = i
        /\ \A n \in 1..Len(fields) :
              fields[n].wire = w.vo[i].k => FromJson(fields[n].ty, w.vo[i].v).ok

Minimum(S) == CHOOSE i \in S : \A h \in S : i <= h

ScalarKind(ty) ==
    \* the JSON kind of a scalar field, "" for a field that is no scalar
    LET u == IF ty.t = "option" THEN ty.of ELSE ty
    IN  CASE u.t = "string" -> "str"
          [] u.t = "bool" -> "bool"
          [] u.t \in {"int", "float"} -> "num"
          [] OTHER -> ""

Mismatched(f, x) ==
    \* x is of another JSON kind than the scalar field f; null in an optional
    \* field is the absent value (C3), not a value of another kind
    /\ ScalarKind(f.ty) # ""
    /\ x.j # ScalarKind(f.ty)
    /\ ~(f.ty.t = "option" /\ x.j = "null")

DecodesUpTo(fields, w, i) ==
    \* the members before member i decode, and member i is the first of its key
    /\ \A h \in 1..(i - 1) :
          /\ w.vo[h].k # w.vo[i].k
          /\ \A g \in 1..(h - 1) : w.vo[g].k # w.vo[h].k
          /\ \A n \in 1..Len(fields) :
                fields[n].wire = w.vo[h].k => FromJson(fields[n].ty, w.vo[h].v).ok

\* C15: a scalar field whose wire value is of another JSON kind than the field
\* (string, number, boolean against each other, or an object or an array) makes
\* the decode fail, for required and optional fields alike, and the error of the
\* first such member is the type mismatch that names the kind found; no value
\* is coerced.
C15_TypeMismatch ==
    (Received /\ Types[type].t = "struct" /\ doc.it.j = "obj")
    => LET fields == Types[type].fields
           w == doc.it
       IN  \A i \in 1..Len(w.vo), n \in 1..Len(fields) :
              (fields[n].wire = w.vo[i].k /\ Mismatched(fields[n], w.vo[i].v))
              => /\ ~result.it.ok
                 /\ DecodesUpTo(fields, w, i)
                    => result.it = Err("invalid_type", w.vo[i].v.j)

\* C15 witness: a Port whose number is a string, a TCPSettings whose optional
\* maxConnections is a boolean, were decoded and refused.
C15_Witness ==
    /\ Received /\ doc.it.j = "obj"
    /\ \/ /\ type = "Port"
          /\ HasKey(doc.it, "number") /\ Get(doc.it, "number").j = "str"
       \/ /\ type = "TCPSettings"
          /\ HasKey(doc.it, "maxConnections")
          /\ Get(doc.it, "maxConnections").j = "bool"
    /\ result.it = Err("invalid_type", IF type = "Port" THEN "str" ELSE "bool")

IsMap(ty) ==
    \/ ty.t = "map"
    \/ ty.t = "option" /\ ty.of.t = "map"

RepeatsKey(x) ==
    /\ x.j = "obj"
    /\ \E g, h \in 1..Len(x.vo) : g # h /\ x.vo[g].k = x.vo[h].k

\* C16: a map field (Subset.labels, GatewaySpec.selector, Distribute.to, the
\* header maps) whose wire object holds one key twice makes the decode fail;
\* neither the first nor the last of the two values is kept.
C16_DuplicateMapKey ==
    (Received /\ Types[type].t = "struct" /\ doc.it.j = "obj")
    => LET fields == Types[type].fields
           w == doc.it
       IN  \A i \in 1..Len(w.vo), n \in 1..Len(fields) :
              (fields[n].wire = w.vo[i].k /\ IsMap(fields[n].ty)
                  /\ RepeatsKey(w.vo[i].v))
              => ~result.it.ok

StructOf(ty) ==
    \* the record type of a field, through Option; the empty record otherwise
    LET u == IF ty.t = "option" THEN ty.of ELSE ty
    IN  IF u.t = "struct" THEN u.fields ELSE <<>>

\* C17: decode is fail-fast and all-or-nothing.  A document whose first
\* malformed field is a scalar of the wrong kind, at the top level or inside a
\* nested record, gives an error and no value; the error is the one of that
\* field and carries the chain of field names from the root to it.
C17_FirstErrorWithPath ==
    (Received /\ Types[type].t = "struct" /\ doc.it.j = "obj")
    => LET fields == Types[type].fields
           w == doc.it
       IN  \A i \in 1..Len(w.vo), n \in 1..Len(fields) :
              (fields[n].wire = w.vo[i].k /\ DecodesUpTo(fields, w, i))
              => LET x == w.vo[i].v
                     inner == StructOf(fields[n].ty)
                 IN  /\ Mismatched(fields[n], x)
                        => /\ ~result.it.ok
                           /\ "val" \notin DOMAIN result.it
                           /\ result.it.err.kind = "invalid_type"
                           /\ FieldChain(result.it.err) = <<w.vo[i].k>>
                     /\ (inner # <<>> /\ x.j = "obj")
                        => \A j \in 1..Len(x.vo), m \in 1..Len(inner) :
                              (inner[m].wire = x.vo[j].k
                                  /\ DecodesUpTo(inner, x, j)
                                  /\ Mismatched(inner[m], x.vo[j].v))
                              => /\ ~result.it.ok
                                 /\ "val" \notin DOMAIN result.it
                                 /\ result.it.err.kind = "invalid_type"
                                 /\ FieldChain(result.it.err) =
                                       <<w.vo[i].k, x.vo[j].k>>

RECURSIVE IsJson(_)
IsJson(w) ==
    \* w is a JSON document: null, a boolean, a number, a string, an array of
    \* documents or an object of documents under string keys
    CASE w.j \in {"null", "bool", "num", "str"} -> TRUE
      [] w.j = "arr" -> \A i \in 1..Len(w.va) : IsJson(w.va[i])
      [] w.j = "obj" -> \A i \in 1..Len(w.vo) :
                            w.vo[i].k \in STRING /\ IsJson(w.vo[i].v)
      [] OTHER -> FALSE

\* C18: encode is total.  Every typed value, of every resource kind and of
\* every substructure, can be encoded, and what encode returns is a wire
\* document, never an error; the same for a value that decode returned.
C18_EncodeTotal ==
    /\ (value.has /\ ~doc.has) => ENABLED Serialize
    /\ Encoded => IsJson(doc.it)
    /\ (Received /\ result.it.ok /\ ~redoc.has) => ENABLED Reserialize
    /\ redoc.has => IsJson(redoc.it)

\* C18 witness: a DestinationRule with a present status and an absent spec
\* was encoded to a document.
C18_Witness ==
    /\ type = "DestinationRule" /\ Encoded
    /\ value.it.status = Some(Unit)
    /\ ~value.it.spec.some
    /\ IsJson(doc.it)

PluralOf ==
    \* the URL path segment the claim C19 gives for each kind
    [DestinationRule |-> "destinationrules",
     Gateway |-> "gateways",
     VirtualService |-> "virtualservices"]

\* C19: each of the three kinds has fixed, mutually consistent constants: its
\* own KIND and plural URL_PATH_SEGMENT, the API_VERSION
\* networking.istio.io/v1beta1, which is GROUP, "/" and VERSION, and the
\* namespaced scope; KIND and URL_PATH_SEGMENT differ from kind to kind.
C19_RegistryConstants ==
    type \in Resources
    => LET r == ResourceFor[type]
       IN  /\ r.KIND = type
           /\ r.URL_PATH_SEGMENT = PluralOf[type]
           /\ r.API_VERSION = "networking.istio.io/v1beta1"
           /\ r.API_VERSION = r.GROUP \o "/" \o r.VERSION
           /\ r.Scope = "NamespaceResourceScope"
           /\ \A other \in Resources \ {type} :
                 /\ ResourceFor[other].KIND # r.KIND
                 /\ ResourceFor[other].URL_PATH_SEGMENT # r.URL_PATH_SEGMENT

\* C19 witness: a caller holds a Gateway and has encoded it.
C19_Witness ==
    /\ type = "Gateway" /\ Encoded
    /\ ResourceFor[type].URL_PATH_SEGMENT = "gateways"

\* C20: the wire document of a resource carries apiVersion and kind at the top
\* level.  Encode of a resource of kind K writes apiVersion =
\* networking.istio.io/v1beta1 and kind = K, and a document whose kind or
\* apiVersion is another one does not decode to a value of the type.
C20_ApiVersionAndKind ==
    type \in Resources
    => LET r == ResourceFor[type]
       IN  /\ Encoded
              => /\ HasKey(doc.it, "apiVersion")
                 /\ Get(doc.it, "apiVersion") = JStr(r.API_VERSION)
                 /\ HasKey(doc.it, "kind")
                 /\ Get(doc.it, "kind") = JStr(r.KIND)
           /\ (Received /\ doc.it.j = "obj" /\ HasKey(doc.it, "kind")
                  /\ Get(doc.it, "kind") # JStr(r.KIND))
              => ~result.it.ok
           /\ (Received /\ doc.it.j = "obj" /\ HasKey(doc.it, "apiVersion")
                  /\ Get(doc.it, "apiVersion") # JStr(r.API_VERSION))
              => ~result.it.ok

NoStatusContent(w) ==
    \* the document has no status, or a status that is null
    HasKey(w, "status") => Get(w, "status").j = "null"

Renamed(fields) == {i \in 1..Len(fields) : fields[i].name # fields[i].wire}

\* C22: every field of a record has one wire name, used by encode and by
\* decode, and the wire names of a record are pairwise distinct.  Encode writes
\* a renamed field under its camelCase key only, and decode does not read it
\* from the snake_case identifier: under that key the field stays absent.
C22_OneWireName ==
    Types[type].t = "struct"
    => LET fields == Types[type].fields
       IN  /\ \A i, n \in 1..Len(fields) :
                 i # n => /\ fields[i].wire # fields[n].wire
                          /\ fields[i].name # fields[n].name
                          /\ fields[i].name # fields[n].wire
           /\ Encoded
              => /\ Keys(doc.it) \subseteq {fields[i].wire : i \in 1..Len(fields)}
                 /\ \A g, h \in 1..Len(doc.it.vo) :
                       doc.it.vo[g].k = doc.it.vo[h].k => g = h
                 /\ \A i \in 1..Len(fields) :
                       LET f == fields[i]
                       IN  (f.ty.t # "option" \/ value.it[f.name].some)
                           => HasKey(doc.it, f.wire)
           /\ (Received /\ doc.it.j = "obj")
              => \A i \in Renamed(fields) :
                    LET f == fields[i]
                    IN  (HasKey(doc.it, f.name) /\ ~HasKey(doc.it, f.wire))
                        => /\ result.it.ok => ~result.it.val[f.name].some
                           /\ f.ty.t # "option" => ~result.it.ok
           /\ (Received /\ doc.it.j = "obj" /\ result.it.ok)
              => \A i \in 1..Len(fields) :
                    LET f == fields[i]
                    IN  (HasKey(doc.it, f.wire) /\ Get(doc.it, f.wire).j # "null")
                        => (f.ty.t = "option" => result.it.val[f.name].some)

\* C22 witness: a TCPSettings document with max_connections in the place of
\* maxConnections was decoded, and the field stayed absent.
C22_Witness ==
    /\ type = "TCPSettings" /\ Received /\ doc.it.j = "obj"
    /\ HasKey(doc.it, "max_connections") /\ ~HasKey(doc.it, "maxConnections")
    /\ result.it.ok
    /\ ~result.it.val.max_connections.some

C24_DocumentedOptional ==
    /\ (type = "DestinationRuleSpec" /\ Received /\ doc.it.j = "obj"
           /\ Keys(doc.it) = {"host"} /\ Get(doc.it, "host").j = "str")
       => /\ result.it.ok
          /\ result.it.val.host = Get(doc.it, "host").vs
    /\ (type = "Subset" /\ Received /\ doc.it \in IstioSubset)
       => /\ result.it.ok
          /\ result.it.val.name = Get(doc.it, "name").vs

\* C25: the wire form of a UInt32Value is a JSON number.  consecutive5xxErrors,
\* consecutiveGatewayErrors and consecutiveLocalOriginFailures decode from a
\* bare number and are encoded as a bare number, not as an object with the key
\* value.
C25_UInt32ValueIsNumber ==
    /\ (type = "OutlierDetection" /\ Received /\ doc.it \in IstioOutlierDetection)
       => /\ result.it.ok
          /\ \A f \in {"consecutive5xx_errors", "consecutive_gateway_errors",
                       "consecutive_local_origin_failures"} :
                HasKey(doc.it, FieldNamed(OutlierDetection.fields, f).wire)
                => /\ result.it.val[f].some
                   /\ result.it.val[f].val.value =
                         Some(Get(doc.it, FieldNamed(OutlierDetection.fields, f).wire).vn)
    /\ (type = "OutlierDetection" /\ Encoded)
       => \A k \in {"consecutive5xxErrors", "consecutiveGatewayErrors",
                    "consecutiveLocalOriginFailures"} :
             (HasKey(doc.it, k) /\ Get(doc.it, k).j # "null")
             => Get(doc.it, k).j = "num"
    /\ (type = "UInt32Value" /\ Encoded /\ value.it.value.some)
       => doc.it = JNum(value.it.value.val)

StringMatchKeys == {"exact", "prefix", "regex"}

\* C26: a StringMatch is a wire object with exactly one of the keys exact,
\* prefix, regex, mapped to a string.  Such an object decodes to the variant of
\* its key carrying the string, each variant is encoded as the single-key
\* object of its own key, and an object with none or with more than one of the
\* three keys does not decode.
C26_StringMatchObject ==
    type = "StringMatch"
    => /\ (Received /\ doc.it.j = "obj")
          => LET w == doc.it
                 own == {i \in 1..Len(w.vo) : w.vo[i].k \in StringMatchKeys}
             IN  /\ (Len(w.vo) = 1 /\ own = {1} /\ w.vo[1].v.j = "str")
                    => result.it = Ok(NewtypeVariant(w.vo[1].k, w.vo[1].v.vs))
                 /\ Cardinality(own) # 1 => ~result.it.ok
       /\ Encoded
          => /\ value.it.variant \in StringMatchKeys
             /\ doc.it = JObj(<<Member(value.it.variant, JStr(value.it.vval))>>)

\* C26 witness: {prefix: b} was decoded to the prefix variant.
C26_Witness ==
    /\ type = "StringMatch" /\ Received
    /\ doc.it = JObj(<<Member("prefix", JStr("b"))>>)
    /\ result.it = Ok(NewtypeVariant("prefix", "b"))

ServerTLSTags == {"PASSTHROUGH", "SIMPLE", "MUTUAL", "AUTO_PASSTHROUGH", "ISTIO_MUTUAL"}

\* C28: the two TLS mode enums have different closed tag sets and each field
\* takes its own only.  ServerTLSSettings.mode takes PASSTHROUGH, SIMPLE,
\* MUTUAL, AUTO_PASSTHROUGH and ISTIO_MUTUAL and refuses DISABLE;
\* ClientTLSSettings.mode takes DISABLE, SIMPLE, MUTUAL and ISTIO_MUTUAL and
\* refuses PASSTHROUGH and AUTO_PASSTHROUGH.
C28_TwoTLSModeSets ==
    (Received /\ doc.it \in IstioTLSSettings)
    => LET tag == Get(doc.it, "mode").vs
       IN  /\ type = "ServerTLSSettings"
              => result.it = IF tag \in ServerTLSTags
                             THEN Ok([Default(ServerTLSSettings) EXCEPT
                                          !.mode = Some(UnitVariant(tag))])
                             ELSE Err("unknown_variant", tag)
           /\ type = "ClientTLSSettings"
              => result.it = IF tag \in ClientTLSTags
                             THEN Ok([Default(ClientTLSSettings) EXCEPT
                                          !.mode = UnitVariant(tag)])
                             ELSE Err("unknown_variant", tag)

\* C28 witness: a ServerTLSSettings document with mode DISABLE was refused,
\* DISABLE being a mode of clients.
C28_Witness ==
    /\ type = "ServerTLSSettings" /\ Received
    /\ doc.it = JObj(<<Member("mode", JStr("DISABLE"))>>)
    /\ result.it = Err("unknown_variant", "DISABLE")

WithFirst(w, k, x) == JObj(<<Member(k, x)>> \o w.vo)

\* C29: wire keys that are no fields of the record being decoded are ignored,
\* not refused.  For a wire object that decodes, the same object with a key that
\* names no field added, in front or behind and whatever its value, decodes to
\* the same value, and encoding the decoded value writes the keys of fields
\* only, so the added key is dropped.
C29_UnknownKeysIgnored ==
    (Received /\ Types[type].t = "struct" /\ doc.it.j = "obj" /\ result.it.ok)
    => LET fields == Types[type].fields
           known == SelectSeq(doc.it.vo, LAMBDA m : FieldIndex(fields, m.k) # 0)
       IN  /\ result.it = FromJson(Types[type], JObj(known))
           /\ \A x \in Strangers :
                 /\ FromJson(Types[type], WithMember(doc.it, "unknownKey", x)) = result.it
                 /\ FromJson(Types[type], WithFirst(doc.it, "unknownKey", x)) = result.it
           /\ redoc.has
              => Keys(redoc.it) \subseteq {fields[i].wire : i \in 1..Len(fields)}

\* C29 witness: a Destination document with a key that names no field was
\* decoded and the value encoded again without that key.
C29_Witness ==
    /\ type = "Destination" /\ Received /\ doc.it.j = "obj"
    /\ HasKey(doc.it, "unknownKey")
    /\ result.it.ok
    /\ redoc.has
    /\ ~HasKey(redoc.it, "unknownKey")

\* C30: for each resource kind, metadata() returns the resource's own metadata
\* and metadata_mut() gives write access to that field only.  Whatever was
\* written, metadata() shows the resource's metadata, which is the metadata
\* written last, and no step changes the spec or the status of the resource.
C30_MetadataAccessors ==
    /\ [](seen.has => /\ seen.it = value.it.metadata
                      /\ written.has => seen.it = written.it)
    /\ [](written.has => value.it.metadata = written.it)
    /\ [][/\ value'.it.spec = value.it.spec
          /\ value'.it.status = value.it.status]_vars

\* C30 witness: the owner of a Gateway with a spec and a status wrote a
\* metadata with a name through metadata_mut() and read it back.
C30_Witness ==
    /\ type = "Gateway" /\ value.has
    /\ written.has /\ written.it.name.some
    /\ seen.has /\ seen.it = written.it
    /\ value.it.status.some

====
